---------------------------- MODULE Spec2Model ----------------------------
(***************************************************************************)
(* bandScan.py: GetWaves connects to an EEG stream, keeps two fixed-size   *)
(* buffers (raw samples, band-power history) and runs a polling loop that  *)
(* pulls a chunk, updates the buffers, prints band powers and metrics,     *)
(* plots, and calls an optional callback.                                  *)
(*                                                                         *)
(* utils.py (update_buffer, get_last_data, compute_band_powers) is         *)
(* imported by bandScan.py but is not among the source files; those three  *)
(* operators follow the specification's description of them.               *)
(***************************************************************************)
EXTENDS Integers, Sequences, FiniteSets, TLC

(***************************************************************************)
(* Bounds of the model.                                                    *)
(***************************************************************************)
\* loop iterations explored: enough for every freely chosen row to leave
\* band_buffer and for eeg_buffer to be filled with pulled samples
MaxIter == 30
\* the largest nominal sampling rate a stream reports; the other one is MaxFs - 5
MaxFs == 11
\* iterations whose epoch may be flat (all-zero band powers) instead of tagged
FreeIters == 2
\* channels carried by one sample of the stream
NumChannels == 2
(***************************************************************************)
(* Band and Parameters.                                                    *)
(***************************************************************************)
\* class Band holds 0-based column indexes; sequences here are 1-based
Band == [Delta |-> 0, Theta |-> 1, Alpha |-> 2, Beta |-> 3, Gamma |-> 4]

NumBands == 5

BUFFER_LENGTH == 5

EPOCH_LENGTH == 1

\* 0.8, as a fraction
OVERLAP_LENGTH == [num |-> 8, den |-> 10]

\* EPOCH_LENGTH - OVERLAP_LENGTH. As doubles 1 - 0.8 is 0.19999999999999996,
\* a value just under num/den; the two floors below take that into account.
SHIFT_LENGTH ==
    [num |-> EPOCH_LENGTH * OVERLAP_LENGTH.den - OVERLAP_LENGTH.num,
     den |-> OVERLAP_LENGTH.den]

INDEX_CHANNEL == <<0>>

None == "None"

(***************************************************************************)
(* Floating-point values: finite rationals num/den (den > 0), the IEEE     *)
(* specials, and the outcome "ZeroDivisionError" of a division that raises.*)
(***************************************************************************)
Fin(n, d) == [k |-> "fin", num |-> n, den |-> d]

Special(kind) == [k |-> kind, num |-> 0, den |-> 1]

\* a variant: x / y the way Python's own float divides, raising on zero
Div_python(a, b) ==
    IF b.num = 0 THEN Special("ZeroDivisionError")
    ELSE IF b.num > 0 THEN Fin(a.num * b.den, a.den * b.num)
    ELSE Fin(-(a.num * b.den), -(a.den * b.num))

\* x / y of two numpy.float64 scalars (elements of np.mean's result): a zero
\* divisor gives inf, -inf or nan (and a RuntimeWarning), never an exception
Div(a, b) ==
    IF b.num = 0
    THEN IF a.num = 0 THEN Special("nan")
         ELSE IF a.num > 0 THEN Special("inf") ELSE Special("-inf")
    ELSE IF b.num > 0 THEN Fin(a.num * b.den, a.den * b.num)
    ELSE Fin(-(a.num * b.den), -(a.den * b.num))

(***************************************************************************)
(* numpy helpers.                                                          *)
(***************************************************************************)
\* np.zeros((rows, cols))
zeros(rows, cols) == [i \in 1..rows |-> [j \in 1..cols |-> 0]]

RECURSIVE ColSum(_, _, _)
ColSum(buf, col, upto) ==
    IF upto = 0 THEN 0 ELSE ColSum(buf, col, upto - 1) + buf[upto][col]

\* np.mean(buf, axis=0): per column, the sum over all rows divided by the row count
mean_axis0(buf) ==
    [j \in 1..Len(buf[1]) |-> Fin(ColSum(buf, j, Len(buf)), Len(buf))]

(***************************************************************************)
(* utils.py, from the specification.                                       *)
(***************************************************************************)
\* the notch filter gives one output sample per input sample; its arithmetic
\* is outside the repository, and a filtered value is told apart from the raw
\* one by its sign
notch_filter(new_data) ==
    [i \in 1..Len(new_data) |-> [j \in 1..Len(new_data[i]) |-> -new_data[i][j]]]

\* shift-and-append: the new rows go to the end, as many of the oldest leave
update_buffer(data_buffer, new_data, notch, filter_state) ==
    LET filtered == IF notch THEN notch_filter(new_data) ELSE new_data
        joined == data_buffer \o filtered
    IN  [buffer |-> SubSeq(joined, Len(new_data) + 1, Len(joined)),
         filter_state |-> IF notch THEN "zi" ELSE filter_state]

\* the newest newest_samples rows of the buffer
get_last_data(data_buffer, newest_samples) ==
    SubSeq(data_buffer, Len(data_buffer) - newest_samples + 1, Len(data_buffer))

\* the row that marks iteration i's epoch: rows of different iterations differ,
\* and so do the bands of one row
TagRow(i) == [b \in 1..NumBands |-> i + b - 1]

\* compute_band_powers(data_epoch, fs): the FFT is outside the repository, its
\* result is an input: the iteration's tagged row or, early on, a flat epoch
compute_band_powers(data_epoch, rate, i) ==
    IF i < FreeIters THEN {TagRow(i), zeros(1, NumBands)[1]} ELSE {TagRow(i)}

(***************************************************************************)
(* State.                                                                  *)
(***************************************************************************)
VARIABLES
    pc,            \* where the program is
    streams,       \* what resolve_byprop returned
    inlet,         \* self.inlet: the stream it reads and how many samples it delivered
    fs,            \* self.fs
    eeg_buffer,    \* self.eeg_buffer
    filter_state,  \* self.filter_state
    band_buffer,   \* self.band_buffer
    args,          \* run's arguments: function, params, verbose
    eeg_data,      \* run's locals
    ch_data,
    data_epoch,
    band_powers,
    x,             \* run's x: completed plots
    console,       \* stdout since the current iteration began
    calls,         \* the arguments of every call of the callback so far, counted
    exc,           \* the exception that occurred, and where
    epochs,        \* history: the band_powers row of every epoch computed so far
    steps          \* history: the steps of the current iteration done so far

vars == <<pc, streams, inlet, fs, eeg_buffer, filter_state, band_buffer, args,
          eeg_data, ch_data, data_epoch, band_powers, x, console, calls, exc,
          epochs, steps>>

LoopSteps == {"pull", "select", "update_eeg", "compute", "update_band",
              "output", "plot", "callback"}

NoExc == [kind |-> None, msg |-> "", at |-> None]

(***************************************************************************)
(* GetWaves.__init__                                                       *)
(***************************************************************************)
\* the nominal sampling rates of the streams that may be on the network
FsVals == {MaxFs - 5, MaxFs}

\* what resolve_byprop may return: no stream, or some streams in some order;
\* a stream is told apart by the nominal_srate of its info
StreamLists ==
    {<<>>} \cup {<<r>> : r \in FsVals}
           \cup {s \in {<<r, q>> : r \in FsVals, q \in FsVals} : s[1] # s[2]}

\* a variant of the test of line 63 that is off by one
NoStreams_one(found) == Len(found) = 1

\* line 63: len(streams) == 0
NoStreams(found) == Len(found) = 0

\* line 68: streams[0]
FirstStream(found) == found[1]

\* int(floor((bufferLength - epochLength) / shiftLength + 1)); the double
\* quotient 4 / 0.19999999999999996 is 20.000000000000004, and the floor of a
\* value just over an integer ratio is the integer quotient
n_win_test ==
    ((BUFFER_LENGTH - EPOCH_LENGTH) * SHIFT_LENGTH.den) \div SHIFT_LENGTH.num + 1

\* a variant sized by the epoch length instead of the buffer length
EegBufferInit_epoch(rate) == zeros(rate * EPOCH_LENGTH, 1)

\* line 84: np.zeros((int(self.fs * bufferLength), 1))
EegBufferInit(rate) == zeros(rate * BUFFER_LENGTH, 1)

\* a variant with the four bands the comment of line 92 lists
BandBufferInit_four == zeros(n_win_test, 4)

\* line 93: np.zeros((n_win_test, 5))
BandBufferInit == zeros(n_win_test, NumBands)

\* how a raised exception travels; where it is caught, run prints and returns
ClosingLine == [label |-> "Closing!", val |-> <<>>]

\* variants of the except clause: a bare except, and none
Catches_all(kind) == TRUE

Catches_none(kind) == FALSE

\* line 154: except KeyboardInterrupt
Catches(kind) == kind = "KeyboardInterrupt"

\* lines 107-155: the try statement spans the loop, not the constructor
Raise(kind, msg, at, out) ==
    /\ exc' = [kind |-> kind, msg |-> msg, at |-> at]
    /\ IF at \in LoopSteps /\ Catches(kind)
       THEN pc' = "returned" /\ console' = Append(out, ClosingLine)
       ELSE pc' = "raised" /\ console' = out

\* lines 56-64
Resolve ==
    /\ pc = "start"
    /\ \E found \in StreamLists :
         /\ streams' = found
         /\ IF NoStreams(found)
            THEN Raise("RuntimeError", "Can't find EEG stream.", "resolve", console)
            ELSE pc' = "connect" /\ UNCHANGED <<exc, console>>
    /\ UNCHANGED <<inlet, fs, eeg_buffer, filter_state, band_buffer, args,
                   eeg_data, ch_data, data_epoch, band_powers, x, calls,
                   epochs, steps>>

\* lines 67-93
Connect ==
    /\ pc = "connect"
    /\ IF Len(streams) = 0
       THEN /\ Raise("IndexError", "list index out of range", "connect", console)
            /\ UNCHANGED <<inlet, fs, eeg_buffer, filter_state, band_buffer>>
       ELSE /\ inlet' = [open |-> TRUE, srate |-> FirstStream(streams), pos |-> 0]
            /\ fs' = inlet'.srate
            /\ eeg_buffer' = EegBufferInit(fs')
            /\ filter_state' = None
            /\ band_buffer' = BandBufferInit
            /\ pc' = "constructed"
            /\ UNCHANGED <<exc, console>>
    /\ UNCHANGED <<streams, args, eeg_data, ch_data, data_epoch, band_powers,
                   x, calls, epochs, steps>>

(***************************************************************************)
(* GetWaves.run                                                            *)
(***************************************************************************)
\* the callers: run() as in __main__, or with a callback and its parameters
RunArgs ==
    {[function |-> f, params |-> IF f = None THEN <<None>> ELSE <<"p1">>,
      verbose |-> v] : f \in {None, "cb"}, v \in BOOLEAN}

\* a variant that prints before the band powers are pushed
NextStep_output_first(step) ==
    CASE step = "pull" -> "select"
      [] step = "select" -> "update_eeg"
      [] step = "update_eeg" -> "compute"
      [] step = "compute" -> "output"
      [] step = "output" -> "update_band"
      [] step = "update_band" -> "plot"
      [] step = "plot" -> "callback"
      [] step = "callback" -> "pull"

\* lines 109-151: the order of the statements of the loop body
NextStep(step) ==
    CASE step = "pull" -> "select"
      [] step = "select" -> "update_eeg"
      [] step = "update_eeg" -> "compute"
      [] step = "compute" -> "update_band"
      [] step = "update_band" -> "output"
      [] step = "output" -> "plot"
      [] step = "plot" -> "callback"
      [] step = "callback" -> "pull"

\* lines 96-106
RunStart ==
    /\ pc = "constructed"
    /\ \E a \in RunArgs : args' = a
    /\ x' = 0
    /\ console' = <<[label |-> "Press Ctrl-C in the console to break the while loop.",
                     val |-> <<>>]>>
    /\ streams' = <<>>
    /\ pc' = "pull"
    /\ UNCHANGED <<inlet, fs, eeg_buffer, filter_state, band_buffer, eeg_data,
                   ch_data, data_epoch, band_powers, calls, exc, epochs, steps>>

\* int(self.shiftLength * self.fs): the double product lies just under
\* num * fs / den, so an exact multiple rounds down to the integer below
max_samples(rate) == (SHIFT_LENGTH.num * rate - 1) \div SHIFT_LENGTH.den

\* the k-th sample the stream delivers, one value per channel
Sample(k) == [c \in 1..NumChannels |-> k * NumChannels + c - 1]

\* lines 113-114: pull_chunk returns what arrived within the timeout, possibly nothing
PullChunk ==
    /\ pc = "pull"
    /\ x < MaxIter
    /\ \E n \in 0..max_samples(fs) :
         /\ eeg_data' = [i \in 1..n |-> Sample(inlet.pos + i)]
         /\ inlet' = [inlet EXCEPT !.pos = @ + n]
    /\ console' = <<>>
    /\ steps' = <<"pull">>
    /\ pc' = NextStep("pull")
    /\ UNCHANGED <<streams, fs, eeg_buffer, filter_state, band_buffer, args,
                   ch_data, data_epoch, band_powers, x, calls, exc, epochs>>

\* line 117: np.array(eeg_data)[:, Parameters.INDEX_CHANNEL]
ChannelsOf(chunk) ==
    [i \in 1..Len(chunk) |->
        [j \in 1..Len(INDEX_CHANNEL) |-> chunk[i][INDEX_CHANNEL[j] + 1]]]

\* an empty chunk is a 1-D array and cannot be indexed [:, ...]
SelectChannel ==
    /\ pc = "select"
    /\ IF Len(eeg_data) = 0
       THEN /\ Raise("IndexError", "too many indices for array", "select", console)
            /\ UNCHANGED <<ch_data, steps>>
       ELSE /\ ch_data' = ChannelsOf(eeg_data)
            /\ steps' = Append(steps, "select")
            /\ pc' = NextStep("select")
            /\ UNCHANGED <<exc, console>>
    /\ UNCHANGED <<streams, inlet, fs, eeg_buffer, filter_state, band_buffer,
                   args, eeg_data, data_epoch, band_powers, x, calls, epochs>>

\* lines 120-122
UpdateEeg ==
    /\ pc = "update_eeg"
    /\ LET r == update_buffer(eeg_buffer, ch_data, TRUE, filter_state)
       IN  eeg_buffer' = r.buffer /\ filter_state' = r.filter_state
    /\ steps' = Append(steps, "update_eeg")
    /\ pc' = NextStep("update_eeg")
    /\ UNCHANGED <<streams, inlet, fs, band_buffer, args, eeg_data, ch_data,
                   data_epoch, band_powers, x, console, calls, exc, epochs>>

\* lines 126-129
Compute ==
    /\ pc = "compute"
    /\ data_epoch' = get_last_data(eeg_buffer, EPOCH_LENGTH * fs)
    /\ \E bp \in compute_band_powers(data_epoch', fs, x) : band_powers' = bp
    /\ epochs' = Append(epochs, band_powers')
    /\ steps' = Append(steps, "compute")
    /\ pc' = NextStep("compute")
    /\ UNCHANGED <<streams, inlet, fs, eeg_buffer, filter_state, band_buffer,
                   args, eeg_data, ch_data, x, console, calls, exc>>

\* a variant that puts the new row first and drops the last
BandPush_front(buf, row) == <<row>> \o SubSeq(buf, 1, Len(buf) - 1)

\* lines 130-131: the row goes in as a one-row array, the buffer is replaced
BandPush(buf, row) == update_buffer(buf, <<row>>, FALSE, None).buffer

UpdateBand ==
    /\ pc = "update_band"
    /\ band_buffer' = BandPush(band_buffer, band_powers)
    /\ steps' = Append(steps, "update_band")
    /\ pc' = NextStep("update_band")
    /\ UNCHANGED <<streams, inlet, fs, eeg_buffer, filter_state, args, eeg_data,
                   ch_data, data_epoch, band_powers, x, console, calls, exc,
                   epochs>>

(***************************************************************************)
(* GetWaves.smoothBandPowers and GetWaves.output                           *)
(***************************************************************************)
\* a buggy variant: the mean over the rows filled so far, the all-zero rows left out
smoothBandPowers_filled ==
    LET filled == SelectSeq(band_buffer, LAMBDA row : row # zeros(1, Len(row))[1])
    IN  IF filled = <<>> THEN mean_axis0(band_buffer) ELSE mean_axis0(filled)

\* line 159: np.mean(self.band_buffer, axis=0)
smoothBandPowers == mean_axis0(band_buffer)

\* lines 162-166: the five raw band powers of the epoch on one line
RawLine(bands) ==
    [label |-> "Delta: Theta: Alpha: Beta: Gamma:",
     val |-> <<Fin(bands[Band.Delta + 1], 1), Fin(bands[Band.Theta + 1], 1),
               Fin(bands[Band.Alpha + 1], 1), Fin(bands[Band.Beta + 1], 1),
               Fin(bands[Band.Gamma + 1], 1)>>]

\* a variant with the gamma ratio of the commented-out lines 192-193
MetricLines_gamma_ratio(smooth) ==
    <<[label |-> "Alpha Relaxation: ",
       val |-> <<Div(smooth[Band.Alpha + 1], smooth[Band.Delta + 1])>>],
      [label |-> "Beta Concentration: ",
       val |-> <<Div(smooth[Band.Beta + 1], smooth[Band.Theta + 1])>>],
      [label |-> "Gamma Perception: ",
       val |-> <<Div(smooth[Band.Gamma + 1], smooth[Band.Theta + 1])>>],
      [label |-> "Theta Relaxation: ",
       val |-> <<Div(smooth[Band.Theta + 1], smooth[Band.Alpha + 1])>>]>>

\* lines 177-201: each metric is computed, then printed, in this order
MetricLines(smooth) ==
    <<[label |-> "Alpha Relaxation: ",
       val |-> <<Div(smooth[Band.Alpha + 1], smooth[Band.Delta + 1])>>],
      [label |-> "Beta Concentration: ",
       val |-> <<Div(smooth[Band.Beta + 1], smooth[Band.Theta + 1])>>],
      [label |-> "Gamma Perception: ",
       val |-> <<smooth[Band.Gamma + 1]>>],
      [label |-> "Theta Relaxation: ",
       val |-> <<Div(smooth[Band.Theta + 1], smooth[Band.Alpha + 1])>>]>>

\* lines 161-201: what output prints when nothing raises
output_lines(bands, verbose) ==
    <<RawLine(bands)>> \o (IF verbose THEN MetricLines(smoothBandPowers) ELSE <<>>)

\* the first line whose value could not be computed because the division raised
FirstRaise(lines) ==
    LET bad == {i \in 1..Len(lines) :
                   \E j \in 1..Len(lines[i].val) :
                       lines[i].val[j].k = "ZeroDivisionError"}
    IN  IF bad = {} THEN 0 ELSE CHOOSE i \in bad : \A j \in bad : i <= j

\* line 132
Output ==
    /\ pc = "output"
    /\ LET lines == output_lines(band_powers, args.verbose)
           r == FirstRaise(lines)
       IN  IF r = 0
           THEN /\ console' = console \o lines
                /\ steps' = Append(steps, "output")
                /\ pc' = NextStep("output")
                /\ UNCHANGED exc
           ELSE /\ Raise("ZeroDivisionError", "float division by zero", "output",
                         console \o SubSeq(lines, 1, r - 1))
                /\ UNCHANGED steps
    /\ UNCHANGED <<streams, inlet, fs, eeg_buffer, filter_state, band_buffer,
                   args, eeg_data, ch_data, data_epoch, band_powers, x, calls,
                   epochs>>

\* lines 133-149: five points are plotted at abscissa x, the figure is redrawn
Plot ==
    /\ pc = "plot"
    /\ x' = x + 1
    /\ steps' = Append(steps, "plot")
    /\ pc' = NextStep("plot")
    /\ UNCHANGED <<streams, inlet, fs, eeg_buffer, filter_state, band_buffer,
                   args, eeg_data, ch_data, data_epoch, band_powers, console,
                   calls, exc, epochs>>

\* lines 150-151
Callback ==
    /\ pc = "callback"
    /\ calls' = IF args.function # None
                THEN [n |-> calls.n + 1, with |-> calls.with \cup {args.params}]
                ELSE calls
    /\ steps' = Append(steps, "callback")
    /\ pc' = NextStep("callback")
    /\ UNCHANGED <<streams, inlet, fs, eeg_buffer, filter_state, band_buffer,
                   args, eeg_data, ch_data, data_epoch, band_powers, x, console,
                   exc, epochs>>

(***************************************************************************)
(* What can go wrong at a step.                                            *)
(***************************************************************************)
\* the steps that call into pylsl, utils or matplotlib
LibrarySteps == {"connect", "pull", "update_eeg", "compute", "update_band", "plot"}

LibraryFails ==
    /\ pc \in LibrarySteps
    /\ Raise("LibraryError", "", pc, console)
    /\ UNCHANGED <<streams, inlet, fs, eeg_buffer, filter_state, band_buffer,
                   args, eeg_data, ch_data, data_epoch, band_powers, x, calls,
                   epochs, steps>>

CallbackFails ==
    /\ pc = "callback"
    /\ args.function # None
    /\ Raise("CallbackError", "", pc, console)
    /\ UNCHANGED <<streams, inlet, fs, eeg_buffer, filter_state, band_buffer,
                   args, eeg_data, ch_data, data_epoch, band_powers, x, calls,
                   epochs, steps>>

\* Ctrl-C while the loop is at any of its steps
KeyboardInterrupt ==
    /\ pc \in LoopSteps
    /\ Raise("KeyboardInterrupt", "", pc, console)
    /\ UNCHANGED <<streams, inlet, fs, eeg_buffer, filter_state, band_buffer,
                   args, eeg_data, ch_data, data_epoch, band_powers, x, calls,
                   epochs, steps>>

(***************************************************************************)
(* The specification.                                                      *)
(***************************************************************************)
Init ==
    /\ pc = "start"
    /\ streams = <<>>
    /\ inlet = [open |-> FALSE, srate |-> 0, pos |-> 0]
    /\ fs = 0
    /\ eeg_buffer = <<>>
    /\ filter_state = None
    /\ band_buffer = <<>>
    /\ args = [function |-> None, params |-> <<None>>, verbose |-> FALSE]
    /\ eeg_data = <<>>
    /\ ch_data = <<>>
    /\ data_epoch = <<>>
    /\ band_powers = <<>>
    /\ x = 0
    /\ console = <<>>
    /\ calls = [n |-> 0, with |-> {}]
    /\ exc = NoExc
    /\ epochs = <<>>
    /\ steps = <<>>

Next ==
    \/ Resolve
    \/ Connect
    \/ RunStart
    \/ PullChunk
    \/ SelectChannel
    \/ UpdateEeg
    \/ Compute
    \/ UpdateBand
    \/ Output
    \/ Plot
    \/ Callback
    \/ LibraryFails
    \/ CallbackFails
    \/ KeyboardInterrupt

Spec == Init /\ [][Next]_vars

(***************************************************************************)
(* Properties.                                                             *)
(***************************************************************************)
Constructed == inlet.open

Terminated == pc \in {"returned", "raised"}

Min(a, b) == IF a <= b THEN a ELSE b

\* what band_buffer is claimed to hold after the epochs of history h: the
\* newest rows of h, newest last, behind the zero rows not yet pushed out
Window(h) ==
    LET m == Min(Len(h), n_win_test)
    IN  zeros(n_win_test - m, NumBands) \o SubSeq(h, Len(h) - m + 1, Len(h))

\* the steps whose band_buffer already holds the newest epoch of the history
InStep == {"constructed", "pull", "output", "plot", "callback"}

\* C1: once constructed, eeg_buffer has int(fs * BUFFER_LENGTH) rows of one
\* column and band_buffer has n_win_test rows of five columns, in every state:
\* no push of a chunk or of a band-power row changes either length.
C1_BuffersKeepShape ==
    Constructed =>
        /\ Len(eeg_buffer) = fs * BUFFER_LENGTH
        /\ \A i \in 1..Len(eeg_buffer) : Len(eeg_buffer[i]) = 1
        /\ Len(band_buffer) = n_win_test
        /\ n_win_test = 21
        /\ \A i \in 1..Len(band_buffer) : Len(band_buffer[i]) = 5

\* chunks of the largest size were pushed until eeg_buffer turned over, and
\* band_buffer has been pushed more often than it has rows
C1_Witness ==
    /\ pc = "compute"
    /\ Len(ch_data) = max_samples(fs)
    /\ max_samples(fs) > 1
    /\ inlet.pos > Len(eeg_buffer)
    /\ x > n_win_test

\* C2: after k completed iterations band_buffer holds the rows of the last
\* min(k, n_win_test) iterations in arrival order, newest last, behind the
\* initial zero rows while k < n_win_test.
C2_NewestLast ==
    pc = "pull" => (Len(epochs) = x /\ band_buffer = Window(epochs))

\* a flat epoch of the second iteration has been pushed out, the later rows stay
C2_Witness ==
    /\ pc = "pull"
    /\ x = n_win_test + 2
    /\ epochs[1] = TagRow(0)
    /\ epochs[2] = zeros(1, NumBands)[1]
    /\ band_buffer[1] = epochs[3]

C4_NoStreamFails ==
    (pc \in {"connect", "constructed"} \/ (pc = "raised" /\ exc.at \in {"resolve", "connect"})) =>
        /\ Len(streams) = 0 =>
              /\ pc = "raised"
              /\ exc = [kind |-> "RuntimeError", msg |-> "Can't find EEG stream.",
                        at |-> "resolve"]
              /\ ~inlet.open
              /\ eeg_buffer = <<>>
              /\ band_buffer = <<>>
        /\ Len(streams) > 0 =>
              /\ exc.kind # "RuntimeError"
              /\ pc = "constructed" => (inlet.open /\ inlet.srate = streams[1]
                                        /\ fs = streams[1])

C4_Witness ==
    /\ pc = "raised"
    /\ streams = <<>>
    /\ exc.kind = "RuntimeError"

\* C5: a keyboard interrupt at any step of the loop is caught by run: the
\* loop stops, 'Closing!' is the last thing printed and run returns.
C5_InterruptCaught ==
    exc.kind = "KeyboardInterrupt" =>
        /\ pc = "returned"
        /\ console # <<>>
        /\ console[Len(console)] = ClosingLine
        /\ ~ENABLED Next

C5_Witness ==
    /\ exc.kind = "KeyboardInterrupt"
    /\ exc.at = "callback"
    /\ args.function # None
    /\ x > 1
    /\ pc = "returned"

\* C6: any other failure in a loop iteration is not handled: the loop ends
\* there, nothing more runs, 'Closing!' is not printed and the failure
\* reaches the caller.
C6_OtherFailuresPropagate ==
    (exc.kind \notin {None, "KeyboardInterrupt"} /\ exc.at \in LoopSteps) =>
        /\ pc = "raised"
        /\ \A i \in 1..Len(console) : console[i] # ClosingLine
        /\ ~ENABLED Next

\* an empty chunk failed at channel selection in a later iteration
C6_Witness ==
    /\ exc.kind = "IndexError"
    /\ exc.at = "select"
    /\ x > 0
    /\ pc = "raised"

\* the smoothed powers used as denominators
ZeroDenominator ==
    \/ smoothBandPowers[Band.Delta + 1].num = 0
    \/ smoothBandPowers[Band.Theta + 1].num = 0
    \/ smoothBandPowers[Band.Alpha + 1].num = 0

\* what IEEE division gives for a zero divisor
ByZero(a) ==
    IF a.num = 0 THEN "nan" ELSE IF a.num > 0 THEN "inf" ELSE "-inf"

\* C7 as stated: with verbose set, output does not complete and the loop does
\* not continue when a smoothed delta, theta or alpha power is zero.
C7_DivideByZeroTerminates ==
    (pc = "plot" /\ args.verbose) => ~ZeroDenominator

\* C7 as amended: the division is unguarded but raises nothing: a zero
\* denominator gives inf, -inf or nan, all four metrics are printed and the
\* loop goes on to the plot.
C7_DivideByZeroPrints ==
    /\ exc.kind # "ZeroDivisionError"
    /\ (pc = "plot" /\ args.verbose) =>
          LET s == smoothBandPowers
          IN  /\ Len(console) = 5
              /\ s[Band.Delta + 1].num = 0 =>
                    console[2].val[1].k = ByZero(s[Band.Alpha + 1])
              /\ s[Band.Theta + 1].num = 0 =>
                    console[3].val[1].k = ByZero(s[Band.Beta + 1])
              /\ s[Band.Alpha + 1].num = 0 =>
                    console[5].val[1].k = ByZero(s[Band.Theta + 1])

\* alpha / delta was printed as inf and the loop went on
C7_Witness ==
    /\ pc = "plot"
    /\ args.verbose
    /\ smoothBandPowers[Band.Delta + 1].num = 0
    /\ smoothBandPowers[Band.Alpha + 1].num > 0
    /\ console[2].val[1].k = "inf"

\* a / b for finite a and positive b
Ratio(a, b) == Fin(a.num * b.den, a.den * b.num)

\* C8: with verbose set and non-zero denominators output prints, after the
\* raw powers, alpha/delta, beta/theta, gamma alone and theta/alpha of the
\* smoothed powers, in this order; without verbose only the raw powers of
\* the current epoch.
C8_FourMetrics ==
    pc = "plot" =>
        LET s == smoothBandPowers
        IN  IF args.verbose
            THEN ~ZeroDenominator =>
                   console =
                     <<RawLine(band_powers),
                       [label |-> "Alpha Relaxation: ",
                        val |-> <<Ratio(s[Band.Alpha + 1], s[Band.Delta + 1])>>],
                       [label |-> "Beta Concentration: ",
                        val |-> <<Ratio(s[Band.Beta + 1], s[Band.Theta + 1])>>],
                       [label |-> "Gamma Perception: ",
                        val |-> <<s[Band.Gamma + 1]>>],
                       [label |-> "Theta Relaxation: ",
                        val |-> <<Ratio(s[Band.Theta + 1], s[Band.Alpha + 1])>>]>>
            ELSE console = <<RawLine(band_powers)>>

C8_Witness ==
    /\ pc = "plot"
    /\ args.verbose
    /\ ~ZeroDenominator
    /\ Len(console) = 5
    /\ console[4].val[1] # console[5].val[1]

\* the order of the statements of the loop body
Order ==
    <<"pull", "select", "update_eeg", "compute", "update_band", "output",
      "plot", "callback">>

\* iterations that ran to their end
Completed ==
    IF pc = "callback" \/ (Terminated /\ exc.at = "callback") THEN x - 1 ELSE x

\* C9: the steps of an iteration run in the order pull, push into eeg_buffer,
\* compute, push into band_buffer, output, plot, callback; what output smooths
\* already holds the iteration's band powers; the callback is called once per
\* completed iteration with params, and never when function is None.
C9_FixedOrder ==
    /\ Len(steps) <= Len(Order)
    /\ steps = SubSeq(Order, 1, Len(steps))
    /\ pc = "plot" =>
          /\ epochs[Len(epochs)] = band_powers
          /\ band_buffer[Len(band_buffer)] = band_powers
          /\ console[1] = RawLine(band_powers)
          /\ args.verbose =>
                console[4].val[1] =
                    Fin(ColSum(Window(epochs), Band.Gamma + 1, n_win_test), n_win_test)
    /\ IF args.function = None
       THEN calls.n = 0
       ELSE calls.n = Completed /\ calls.with \subseteq {args.params}

C9_Witness ==
    /\ pc = "pull"
    /\ steps = Order
    /\ x > 1
    /\ args.function # None
    /\ calls = [n |-> x, with |-> {args.params}]

\* C10: smoothBandPowers is, per band, the sum of the rows of the last
\* min(k, n_win_test) epochs divided by n_win_test, whatever k is: the zero
\* rows still in the buffer count, and right after construction all five
\* values are zero.
C10_MeanOverAllRows ==
    (Constructed /\ pc \in InStep) =>
        /\ smoothBandPowers =
             [j \in 1..NumBands |->
                 Fin(ColSum(epochs, j, Len(epochs))
                       - ColSum(epochs, j, Len(epochs) - Min(Len(epochs), n_win_test)),
                     n_win_test)]
        /\ epochs = <<>> => smoothBandPowers = [j \in 1..NumBands |-> Fin(0, n_win_test)]

\* fewer epochs than rows, and a band whose sum is not zero
C10_Witness ==
    /\ pc = "pull"
    /\ x > 0
    /\ x < n_win_test
    /\ smoothBandPowers[Band.Gamma + 1].num > 0
    /\ smoothBandPowers[Band.Gamma + 1].den = n_win_test

====
